---------------------------- MODULE Spec2Model ----------------------------
(***************************************************************************)
(* A model of dataflow_preprocess.py: the _Shuffle transform               *)
(* (PairWithRandom, GroupByRandom, DropRandom), the pipeline that          *)
(* preprocess wires, and the argument handling of parse_arguments / main.  *)
(***************************************************************************)
EXTENDS Integers, Sequences, FiniteSets, Bags, TLC

(***************************************************************************)
(* Bounds of the model.                                                    *)
(***************************************************************************)
\* longest input collection handed to _Shuffle
MaxLen == 3
\* longest input file (in lines) read by preprocess
MaxLines == 2

\* Python's None
None == "None"

\* Serialized records are opaque to _Shuffle.
Records == {"a", "b", "c"}

\* random.random() returns a float in [0.0, 1.0); key k stands for k/10.
\* Three values are enough for runs with pairwise distinct keys and for runs
\* in which two or more records draw the same key.
Keys == {1, 4, 7}

VARIABLES
    \* ---- _Shuffle ----
    pcoll,      \* the input PCollection of _Shuffle
    draws,      \* the values random.random() has returned, in order
    paired,     \* output of PairWithRandom: (key, record) pairs
    grouped,    \* output of GroupByRandom: (key, values) groups, in emission order
    dropped,    \* number of groups DropRandom has consumed
    shuffled,   \* output of DropRandom, the output of _Shuffle
    stage,      \* the step of _Shuffle that runs next
    \* ---- preprocess ----
    inputs,     \* the arguments of preprocess and the lines of the files they name
    preprocessing_fn,   \* the local of preprocess (line 146), <<>> before it is set
    graph,      \* the labels of the steps preprocess has applied to the pipeline
    ran,        \* the labels of the steps the runner has executed
    out,        \* label -> the PCollection that step produced
    files,      \* output name -> the entries written there
    \* ---- parse_arguments / main ----
    argv,       \* the command line as argparse sees it
    args,       \* the namespace parse_arguments builds
    lookups,    \* the outcomes of the calls of _default_project, in order
    pc,         \* position in parse_arguments / main
    options     \* the pipeline options main builds

shuffleVars == <<pcoll, draws, paired, grouped, dropped, shuffled, stage>>
preprocessVars == <<inputs, preprocessing_fn, graph, ran, out, files>>
argVars == <<argv, args, lookups, pc, options>>
vars == <<pcoll, draws, paired, grouped, dropped, shuffled, stage,
          inputs, preprocessing_fn, graph, ran, out, files,
          argv, args, lookups, pc, options>>

(***************************************************************************)
(* Helpers on sequences.                                                   *)
(***************************************************************************)
SeqsUpTo(S, n) == UNION {[1..m -> S] : m \in 0..n}

Range(s) == {s[i] : i \in DOMAIN s}

\* the permutations of 1..n, for every length a collection of the model has
AllPerms ==
    [n \in 0..(IF MaxLen > MaxLines THEN MaxLen ELSE MaxLines) |->
        {f \in [1..n -> 1..n] : \A i, j \in 1..n : f[i] = f[j] => i = j}]

Perms(n) == AllPerms[n]

\* the multiset of the elements of a sequence
BagOf(s) == [x \in Range(s) |-> Cardinality({i \in DOMAIN s : s[i] = x})]

RECURSIVE Flatten(_)
Flatten(ss) == IF ss = <<>> THEN <<>> ELSE Head(ss) \o Flatten(Tail(ss))

(***************************************************************************)
(* _Shuffle (lines 93-98).                                                 *)
(***************************************************************************)

\* A PCollection has no order of its own: the runner hands the elements to
\* GroupByKey in an order of its choosing.  Arrival(s, pi) is s in the
\* arrival order pi.
\* (variant: the elements always arrive in input order)
ArrivalInputOrder(s, pi) == s
\* (as modelled)
Arrival(s, pi) == [i \in DOMAIN s |-> s[pi[i]]]

\* 'PairWithRandom' >> beam.Map(lambda x: (random.random(), x))
\* (variant: one key for every record)
PairConstantKey(k, x) == <<1, x>>
\* (as coded)
PairWithRandomFn(k, x) == <<k, x>>

\* GroupByKey, one element at a time: the value joins the group of its key,
\* or opens a new group.
\* (variant: a later value replaces the group of its key)
AddOverwriting(groups, kv) ==
    IF \E i \in DOMAIN groups : groups[i][1] = kv[1]
    THEN [i \in DOMAIN groups |->
            IF groups[i][1] = kv[1] THEN <<kv[1], <<kv[2]>>>> ELSE groups[i]]
    ELSE Append(groups, <<kv[1], <<kv[2]>>>>)
\* (as coded)
AddToGroup(groups, kv) ==
    IF \E i \in DOMAIN groups : groups[i][1] = kv[1]
    THEN [i \in DOMAIN groups |->
            IF groups[i][1] = kv[1]
            THEN <<kv[1], Append(groups[i][2], kv[2])>>
            ELSE groups[i]]
    ELSE Append(groups, <<kv[1], <<kv[2]>>>>)

\* 'GroupByRandom' >> beam.GroupByKey(), on the elements in arrival order
RECURSIVE GroupInto(_, _)
GroupInto(groups, kvs) ==
    IF kvs = <<>> THEN groups
    ELSE GroupInto(AddToGroup(groups, Head(kvs)), Tail(kvs))

GroupByKey(kvs) == GroupInto(<<>>, kvs)

\* 'DropRandom' >> beam.FlatMap(lambda (k, vs): vs)
\* (variant: the first value of a group is lost)
DropAllButFirst(kv) == Tail(kv[2])
\* (as coded)
DropRandomFn(kv) == kv[2]

\* every result GroupByRandom can emit for the pairs kvs
GroupByRandomResults(kvs) ==
    {GroupByKey(Arrival(kvs, pi)) : pi \in Perms(Len(kvs))}

\* every output _Shuffle can emit once the pairs kvs are formed
ShuffleResults(kvs) ==
    {Flatten([i \in DOMAIN g |-> DropRandomFn(g[i])]) : g \in GroupByRandomResults(kvs)}

\* every output _Shuffle can emit for the input collection R
ShuffleOutputs(R) ==
    UNION {ShuffleResults([i \in DOMAIN R |-> PairWithRandomFn(ks[i], R[i])]) :
             ks \in [DOMAIN R -> Keys]}

ShuffleInit ==
    /\ pcoll \in SeqsUpTo(Records, MaxLen)
    /\ draws = <<>>
    /\ paired = <<>>
    /\ grouped = <<>>
    /\ dropped = 0
    /\ shuffled = <<>>
    /\ stage = "PairWithRandom"

\* PairWithRandom maps the next element of the input: one key is drawn for it.
\* (variant: a key is drawn before the input is looked at)
PairWithRandomEager ==
    /\ stage = "PairWithRandom"
    /\ Len(draws) <= Len(pcoll)
    /\ \E k \in Keys :
          /\ draws' = Append(draws, k)
          /\ paired' = IF Len(paired) < Len(pcoll)
                       THEN Append(paired, PairWithRandomFn(k, pcoll[Len(paired) + 1]))
                       ELSE paired
    /\ UNCHANGED <<pcoll, grouped, dropped, shuffled, stage>>
    /\ UNCHANGED <<preprocessVars, argVars>>
\* (as coded)
PairWithRandom ==
    /\ stage = "PairWithRandom"
    /\ Len(paired) < Len(pcoll)
    /\ \E k \in Keys :
          /\ draws' = Append(draws, k)
          /\ paired' = Append(paired, PairWithRandomFn(k, pcoll[Len(paired) + 1]))
    /\ UNCHANGED <<pcoll, grouped, dropped, shuffled, stage>>
    /\ UNCHANGED <<preprocessVars, argVars>>

\* GroupByRandom runs once every element is paired; the runner chooses the
\* arrival order.
GroupByRandom ==
    /\ stage = "PairWithRandom"
    /\ Len(paired) = Len(pcoll)
    /\ \E pi \in Perms(Len(paired)) :
          grouped' = GroupByKey(Arrival(paired, pi))
    /\ stage' = "DropRandom"
    /\ UNCHANGED <<pcoll, draws, paired, dropped, shuffled>>
    /\ UNCHANGED <<preprocessVars, argVars>>

\* DropRandom flat-maps the next group: its values are emitted, its key is not.
\* (variant: the output holds the values of the last group only)
DropRandomKeepingLast ==
    /\ stage = "DropRandom"
    /\ dropped < Len(grouped)
    /\ shuffled' = DropRandomFn(grouped[dropped + 1])
    /\ dropped' = dropped + 1
    /\ UNCHANGED <<pcoll, draws, paired, grouped, stage>>
    /\ UNCHANGED <<preprocessVars, argVars>>
\* (as coded)
DropRandom ==
    /\ stage = "DropRandom"
    /\ dropped < Len(grouped)
    /\ shuffled' = shuffled \o DropRandomFn(grouped[dropped + 1])
    /\ dropped' = dropped + 1
    /\ UNCHANGED <<pcoll, draws, paired, grouped, stage>>
    /\ UNCHANGED <<preprocessVars, argVars>>

\* _Shuffle has emitted its whole output
ShuffleDone == stage = "DropRandom" /\ dropped = Len(grouped)

(***************************************************************************)
(* preprocess (lines 102-209).                                             *)
(***************************************************************************)

\* Lines of the input files, as byte strings: "1" and "2,3".
Line1 == <<49>>
Line2 == <<50, 44, 51>>

\* Each input file holds the first m lines of an alternating text, for every
\* m up to MaxLines.
RECURSIVE Alternating(_, _, _)
Alternating(x, y, n) == IF n = 0 THEN <<>> ELSE <<x>> \o Alternating(y, x, n - 1)

TrainingFiles == {Alternating(Line1, Line2, m) : m \in 0..MaxLines}
EvalFiles == {Alternating(Line2, Line1, m) : m \in 0..MaxLines}
PredictFileContents == {Alternating(Line1, Line2, m) : m \in 0..MaxLines}

\* the value main passes for --frequency_threshold: the default or a given one
Thresholds == {100, 5}

\* the value main passes for --predict_data: absent, empty, or a file pattern
PredictArgs == {None, "", "predict.csv"}

\* `if predict_data:` is Python truthiness: None and "" are both false
Truthy(x) == x # None /\ x # ""
IsNotNone(x) == x # None

\* outbrain_transform.make_input_schema() and make_csv_coder(schema).decode
CsvDecode(schema, line) == <<"row", schema, line>>

\* outbrain_transform.make_preprocessing_fn(*a)
make_preprocessing_fn(a) == <<"make_preprocessing_fn", a>>

\* the transform function AnalyzeAndTransformDataset derives from the
\* preprocessing function and the training rows it analyzes
TransformFn(fn, rows) == <<"transform_fn", fn, Range(rows)>>

\* a row transformed by a transform function
Transformed(tfn, row) == <<"transformed", tfn, row>>

\* coders.ExampleProtoCoder(schema).encode of a transformed row
ExampleEncode(schema, x) == <<"Example", schema, x>>

\* predict_coder.encode of a raw row: the serialized bytes, the row's text
\* framed by a field tag and its length
PredictEncode(row) == <<10, Len(row[3])>> \o row[3]

B64Alphabet ==
    << "A","B","C","D","E","F","G","H","I","J","K","L","M","N","O","P",
       "Q","R","S","T","U","V","W","X","Y","Z","a","b","c","d","e","f",
       "g","h","i","j","k","l","m","n","o","p","q","r","s","t","u","v",
       "w","x","y","z","0","1","2","3","4","5","6","7","8","9","+","/" >>

B64Char(n) == B64Alphabet[(n % 64) + 1]

\* base64.b64encode
RECURSIVE b64encode(_)
b64encode(bs) ==
    IF bs = <<>> THEN ""
    ELSE IF Len(bs) = 1 THEN
        LET n == bs[1] * 65536
        IN  B64Char(n \div 262144) \o B64Char(n \div 4096) \o "=="
    ELSE IF Len(bs) = 2 THEN
        LET n == bs[1] * 65536 + bs[2] * 256
        IN  B64Char(n \div 262144) \o B64Char(n \div 4096)
              \o B64Char(n \div 64) \o "="
    ELSE
        LET n == bs[1] * 65536 + bs[2] * 256 + bs[3]
        IN  B64Char(n \div 262144) \o B64Char(n \div 4096)
              \o B64Char(n \div 64) \o B64Char(n)
              \o b64encode(SubSeq(bs, 4, Len(bs)))

\* json.dumps({'b64': base64.b64encode(serialized_example)})
_encode_as_b64_json(serialized_example) ==
    "{\"b64\": \"" \o b64encode(serialized_example) \o "\"}"

TrainLabels ==
    {"ReadTrainingData", "ParseTrainingCsv", "AnalyzeAndTransform",
     "WriteTransformFn", "SerializeTrainExamples", "ShuffleTraining",
     "WriteTraining"}
EvalLabels ==
    {"ReadEvalData", "ParseEvalCsv", "TransformEval", "SerializeEvalExamples",
     "WriteEval"}
PredictLabels ==
    {"ReadPredictData", "ParsePredictCsv", "EncodePredictData",
     "WritePredictDataAsTFRecord", "EncodePredictAsB64Json",
     "WritePredictDataAsText"}
Labels == TrainLabels \cup EvalLabels \cup PredictLabels \cup {"WriteInputMetadata"}

\* the outputs under output_dir (path_constants names them)
PredictFiles == {"TRANSFORMED_PREDICT_DATA_FILE_PREFIX.tfrecord.gz",
                 "TRANSFORMED_PREDICT_DATA_FILE_PREFIX.txt"}
FileNames ==
    {"RAW_METADATA_DIR", "TRANSFORM_FN_DIR",
     "TRANSFORMED_TRAIN_DATA_FILE_PREFIX.tfrecord.gz",
     "TRANSFORMED_EVAL_DATA_FILE_PREFIX.tfrecord.gz"} \cup PredictFiles

PreprocessInit ==
    /\ inputs \in [training_data : TrainingFiles,
                   eval_data : EvalFiles,
                   predict_data : PredictArgs,
                   predict_lines : PredictFileContents,
                   frequency_threshold : Thresholds]
    \* the lines of the prediction file exist only when one is named
    /\ ~Truthy(inputs.predict_data) => inputs.predict_lines = <<>>
    /\ preprocessing_fn = <<>>
    /\ graph = {}
    /\ ran = {}
    /\ out = [l \in Labels |-> <<>>]
    /\ files = [f \in FileNames |-> <<>>]

\* the steps applied under `if predict_data:` (lines 182-203)
\* (variant: `if predict_data is not None:`)
PredictStepsIfNotNone(predict_data) ==
    IF IsNotNone(predict_data) THEN PredictLabels ELSE {}
\* (as coded)
PredictSteps(predict_data) ==
    IF Truthy(predict_data) THEN PredictLabels ELSE {}

\* the preprocessing function preprocess builds (lines 144-146): the call
\* that passes frequency_threshold is commented out
PreprocessingFn(frequency_threshold) == make_preprocessing_fn(<<>>)

\* the body of preprocess: it applies the steps to the pipeline
Preprocess ==
    /\ graph = {}
    /\ preprocessing_fn' = PreprocessingFn(inputs.frequency_threshold)
    /\ graph' = TrainLabels \cup EvalLabels \cup {"WriteInputMetadata"}
                  \cup PredictSteps(inputs.predict_data)
    /\ UNCHANGED <<inputs, ran, out, files>>
    /\ UNCHANGED <<shuffleVars, argVars>>

\* a step runs once, after the steps it consumes
Ready(l, deps) == l \in graph /\ l \notin ran /\ deps \subseteq ran

Produce(l, v) ==
    /\ out' = [out EXCEPT ![l] = v]
    /\ ran' = ran \cup {l}
    /\ UNCHANGED <<inputs, preprocessing_fn, graph, files>>
    /\ UNCHANGED <<shuffleVars, argVars>>

WriteFile(l, f, v) ==
    /\ files' = [files EXCEPT ![f] = v]
    /\ ran' = ran \cup {l}
    /\ UNCHANGED <<inputs, preprocessing_fn, graph, out>>
    /\ UNCHANGED <<shuffleVars, argVars>>

ReadTrainingData ==
    /\ Ready("ReadTrainingData", {})
    /\ Produce("ReadTrainingData", inputs.training_data)

ParseTrainingCsv ==
    /\ Ready("ParseTrainingCsv", {"ReadTrainingData"})
    /\ Produce("ParseTrainingCsv",
               [i \in DOMAIN out["ReadTrainingData"] |->
                   CsvDecode("input_schema", out["ReadTrainingData"][i])])

ReadEvalData ==
    /\ Ready("ReadEvalData", {})
    /\ Produce("ReadEvalData", inputs.eval_data)

ParseEvalCsv ==
    /\ Ready("ParseEvalCsv", {"ReadEvalData"})
    /\ Produce("ParseEvalCsv",
               [i \in DOMAIN out["ReadEvalData"] |->
                   CsvDecode("input_schema", out["ReadEvalData"][i])])

WriteInputMetadata ==
    /\ Ready("WriteInputMetadata", {})
    /\ WriteFile("WriteInputMetadata", "RAW_METADATA_DIR", <<"input_schema">>)

\* the transform function in use once AnalyzeAndTransform has run
transform_fn == TransformFn(preprocessing_fn, out["ParseTrainingCsv"])

AnalyzeAndTransform ==
    /\ Ready("AnalyzeAndTransform", {"ParseTrainingCsv"})
    /\ Produce("AnalyzeAndTransform",
               [i \in DOMAIN out["ParseTrainingCsv"] |->
                   Transformed(transform_fn, out["ParseTrainingCsv"][i])])

WriteTransformFn ==
    /\ Ready("WriteTransformFn", {"AnalyzeAndTransform"})
    /\ WriteFile("WriteTransformFn", "TRANSFORM_FN_DIR", <<transform_fn>>)

TransformEval ==
    /\ Ready("TransformEval", {"ParseEvalCsv", "AnalyzeAndTransform"})
    /\ Produce("TransformEval",
               [i \in DOMAIN out["ParseEvalCsv"] |->
                   Transformed(transform_fn, out["ParseEvalCsv"][i])])

SerializeTrainExamples ==
    /\ Ready("SerializeTrainExamples", {"AnalyzeAndTransform"})
    /\ Produce("SerializeTrainExamples",
               [i \in DOMAIN out["AnalyzeAndTransform"] |->
                   ExampleEncode("train_metadata.schema", out["AnalyzeAndTransform"][i])])

\* 'ShuffleTraining' >> _Shuffle() on the serialized training examples
ShuffleTraining ==
    /\ Ready("ShuffleTraining", {"SerializeTrainExamples"})
    /\ \E o \in ShuffleOutputs(out["SerializeTrainExamples"]) :
          Produce("ShuffleTraining", o)

\* the step whose output WriteTraining writes (lines 164-171)
\* (variant: the shuffle is bypassed)
WriteTrainingSourceUnshuffled == "SerializeTrainExamples"
\* (as coded)
WriteTrainingSource == "ShuffleTraining"

WriteTraining ==
    /\ Ready("WriteTraining", {WriteTrainingSource})
    /\ WriteFile("WriteTraining", "TRANSFORMED_TRAIN_DATA_FILE_PREFIX.tfrecord.gz",
                 out[WriteTrainingSource])

SerializeEvalExamples ==
    /\ Ready("SerializeEvalExamples", {"TransformEval"})
    /\ Produce("SerializeEvalExamples",
               [i \in DOMAIN out["TransformEval"] |->
                   ExampleEncode("evaluate_metadata.schema", out["TransformEval"][i])])

WriteEval ==
    /\ Ready("WriteEval", {"SerializeEvalExamples"})
    /\ WriteFile("WriteEval", "TRANSFORMED_EVAL_DATA_FILE_PREFIX.tfrecord.gz",
                 out["SerializeEvalExamples"])

ReadPredictData ==
    /\ Ready("ReadPredictData", {})
    /\ Produce("ReadPredictData", inputs.predict_lines)

ParsePredictCsv ==
    /\ Ready("ParsePredictCsv", {"ReadPredictData"})
    /\ Produce("ParsePredictCsv",
               [i \in DOMAIN out["ReadPredictData"] |->
                   CsvDecode("predict_schema", out["ReadPredictData"][i])])

\* serialized_examples (lines 187-192)
EncodePredictData ==
    /\ Ready("EncodePredictData", {"ParsePredictCsv"})
    /\ Produce("EncodePredictData",
               [i \in DOMAIN out["ParsePredictCsv"] |->
                   PredictEncode(out["ParsePredictCsv"][i])])

WritePredictDataAsTFRecord ==
    /\ Ready("WritePredictDataAsTFRecord", {"EncodePredictData"})
    /\ WriteFile("WritePredictDataAsTFRecord",
                 "TRANSFORMED_PREDICT_DATA_FILE_PREFIX.tfrecord.gz",
                 out["EncodePredictData"])

EncodePredictAsB64Json ==
    /\ Ready("EncodePredictAsB64Json", {"EncodePredictData"})
    /\ Produce("EncodePredictAsB64Json",
               [i \in DOMAIN out["EncodePredictData"] |->
                   _encode_as_b64_json(out["EncodePredictData"][i])])

WritePredictDataAsText ==
    /\ Ready("WritePredictDataAsText", {"EncodePredictAsB64Json"})
    /\ WriteFile("WritePredictDataAsText",
                 "TRANSFORMED_PREDICT_DATA_FILE_PREFIX.txt",
                 out["EncodePredictAsB64Json"])

\* the pipeline has run every step preprocess applied
PipelineDone == graph # {} /\ ran = graph

(***************************************************************************)
(* Specifications.                                                         *)
(***************************************************************************)
ShuffleIdle ==
    /\ pcoll = <<>> /\ draws = <<>> /\ paired = <<>> /\ grouped = <<>>
    /\ dropped = 0 /\ shuffled = <<>> /\ stage = "idle"

PreprocessIdle ==
    /\ inputs = [training_data |-> <<>>, eval_data |-> <<>>, predict_data |-> None,
                 predict_lines |-> <<>>, frequency_threshold |-> 100]
    /\ preprocessing_fn = <<>>
    /\ graph = {} /\ ran = {}
    /\ out = [l \in Labels |-> <<>>]
    /\ files = [f \in FileNames |-> <<>>]

ArgsIdle ==
    /\ argv = <<>> /\ args = <<>> /\ lookups = <<>> /\ pc = "idle" /\ options = <<>>

\* _Shuffle applied to an arbitrary collection of records
Init == ShuffleInit /\ PreprocessIdle /\ ArgsIdle

Next ==
    \/ PairWithRandom
    \/ GroupByRandom
    \/ DropRandom

Spec == Init /\ [][Next]_vars

\* preprocess on the arguments main passes, and the pipeline it builds
PreprocessSpecInit == PreprocessInit /\ ShuffleIdle /\ ArgsIdle

PreprocessNext ==
    \/ Preprocess
    \/ ReadTrainingData
    \/ ParseTrainingCsv
    \/ ReadEvalData
    \/ ParseEvalCsv
    \/ WriteInputMetadata
    \/ AnalyzeAndTransform
    \/ WriteTransformFn
    \/ TransformEval
    \/ SerializeTrainExamples
    \/ ShuffleTraining
    \/ WriteTraining
    \/ SerializeEvalExamples
    \/ WriteEval
    \/ ReadPredictData
    \/ ParsePredictCsv
    \/ EncodePredictData
    \/ WritePredictDataAsTFRecord
    \/ EncodePredictAsB64Json
    \/ WritePredictDataAsText

PreprocessSpec == PreprocessSpecInit /\ [][PreprocessNext]_vars

(***************************************************************************)
(* parse_arguments (lines 47-89), _default_project (38-44), main (212-255).*)
(***************************************************************************)

\* What the command line can hold for each option: None when the option is
\* absent, else the string given.
ArgvSpace ==
    [project_id : {None, "", "my-project"},
     cloud : BOOLEAN,
     frequency_threshold : {None, "5", "abc"},
     training_data : {None, "train.csv"},
     eval_data : {None, "eval.csv"},
     predict_data : PredictArgs,
     output_dir : {None, "out"}]

\* type=int of --frequency_threshold
IsInt(s) == s \in {"5", "100"}
ParseInt(s) == CASE s = "5" -> 5 [] s = "100" -> 100 [] OTHER -> 0

\* default=100 of --frequency_threshold
DefaultFrequencyThreshold == 100

\* argparse rejects the command line: a required option is missing or the
\* threshold is no integer
Rejected(av) ==
    \/ av.training_data = None
    \/ av.eval_data = None
    \/ av.output_dir = None
    \/ (av.frequency_threshold # None /\ ~IsInt(av.frequency_threshold))

\* the namespace parser.parse_known_args returns (line 84)
Namespace(av) ==
    [project_id |-> av.project_id,
     cloud |-> av.cloud,
     frequency_threshold |->
        IF av.frequency_threshold = None THEN DefaultFrequencyThreshold
        ELSE ParseInt(av.frequency_threshold),
     training_data |-> av.training_data,
     eval_data |-> av.eval_data,
     predict_data |-> av.predict_data,
     output_dir |-> av.output_dir]

\* what `gcloud config list project` can print, stripped; it can also fail
DefaultProjects == {"", "gcloud-project"}

\* `if args.cloud and not args.project_id:` (line 86)
\* (variant: --cloud is not tested)
NeedsDefaultProjectAnyRunner(a) == ~Truthy(a.project_id)
\* (as coded)
NeedsDefaultProject(a) == a.cloud /\ ~Truthy(a.project_id)

ArgsInit ==
    /\ argv \in ArgvSpace
    /\ args = <<>>
    /\ lookups = <<>>
    /\ pc = "parse_arguments"
    /\ options = <<>>

\* parse_arguments, whole: parse, look the project up if need be, return
ParseArguments ==
    /\ pc = "parse_arguments"
    /\ IF Rejected(argv)
       THEN /\ pc' = "exit"
            /\ UNCHANGED <<args, lookups>>
       ELSE IF NeedsDefaultProject(Namespace(argv))
       THEN \/ \E p \in DefaultProjects :
                 /\ lookups' = Append(lookups, p)
                 /\ args' = [Namespace(argv) EXCEPT !.project_id = p]
                 /\ pc' = "parsed"
            \/ \* subprocess.check_output raises
               /\ lookups' = Append(lookups, "CalledProcessError")
               /\ pc' = "error"
               /\ UNCHANGED args
       ELSE /\ args' = Namespace(argv)
            /\ pc' = "parsed"
            /\ UNCHANGED lookups
    /\ UNCHANGED <<argv, options>>
    /\ UNCHANGED <<shuffleVars, preprocessVars>>

\* main, lines 215-244: the runner and its options
BuildOptions ==
    /\ pc = "parsed"
    /\ options' = IF args.cloud
                  THEN <<"DataflowRunner", args.project_id, args.output_dir, 1000>>
                  ELSE <<"DirectRunner">>
    /\ pc' = "pipeline"
    /\ UNCHANGED <<argv, args, lookups>>
    /\ UNCHANGED <<shuffleVars, preprocessVars>>

\* main, lines 246-255: preprocess is called with the parsed arguments; the
\* files they name hold some lines
CallPreprocess ==
    /\ pc = "pipeline"
    /\ \E tr \in TrainingFiles, ev \in EvalFiles, pr \in PredictFileContents :
          /\ (~Truthy(args.predict_data) => pr = <<>>)
          /\ inputs' = [training_data |-> tr, eval_data |-> ev,
                        predict_data |-> args.predict_data,
                        predict_lines |-> pr,
                        frequency_threshold |-> args.frequency_threshold]
    /\ pc' = "preprocess"
    /\ UNCHANGED <<argv, args, lookups, options>>
    /\ UNCHANGED <<shuffleVars, preprocessing_fn, graph, ran, out, files>>

ArgsSpecInit ==
    /\ ArgsInit
    /\ ShuffleIdle
    /\ PreprocessIdle

ArgsNext ==
    \/ ParseArguments
    \/ BuildOptions
    \/ CallPreprocess

ArgsSpec == ArgsSpecInit /\ [][ArgsNext]_vars

(***************************************************************************)
(* Properties of _Shuffle, checked under Spec.                             *)
(***************************************************************************)

\* the input has n elements, every one paired with a key
AllPaired == stage = "PairWithRandom" /\ Len(paired) = Len(pcoll)

\* the keys drawn are pairwise distinct
DistinctDraws == \A i, j \in DOMAIN draws : draws[i] = draws[j] => i = j

\* two or more records drew the same key
SomeCollision == \E i, j \in DOMAIN draws : i # j /\ draws[i] = draws[j]

\* the values of the pairs of kvs, in ascending order of their (distinct) keys
AscendingByKey(kvs) ==
    [i \in DOMAIN kvs |->
        kvs[CHOOSE j \in DOMAIN kvs :
                Cardinality({m \in DOMAIN kvs : kvs[m][1] <= kvs[j][1]}) = i][2]]

\* the sequence s with its elements in the order pi
Reordered(s, pi) == [i \in DOMAIN s |-> s[pi[i]]]

\* the sequence s with its elements i and j exchanged
Exchanged(s, i, j) ==
    [m \in DOMAIN s |-> IF m = i THEN s[j] ELSE IF m = j THEN s[i] ELSE s[m]]

\* the values of the pairs of kvs whose key is k
ValuesWithKey(kvs, k) ==
    LET sel == SelectSeq(kvs, LAMBDA kv : kv[1] = k)
    IN  [i \in DOMAIN sel |-> sel[i][2]]

\* the values of the first n groups, concatenated
Emitted(groups, n) == Flatten([i \in 1..n |-> groups[i][2]])

\* C1: for every finite input collection and every assignment of keys, the
\* output of _Shuffle is a permutation of the input: the same multiset of
\* records and the same count, so nothing is dropped, duplicated or changed,
\* and equal records are each retained.
C1_OutputIsPermutation ==
    ShuffleDone =>
        /\ Len(shuffled) = Len(pcoll)
        /\ BagOf(shuffled) = BagOf(pcoll)
        /\ \E pi \in Perms(Len(pcoll)) : shuffled = Reordered(pcoll, pi)

C1_Witness ==
    /\ ShuffleDone
    /\ pcoll = <<"a", "b", "a">>
    /\ shuffled = <<"b", "a", "a">>

\* C2 as stated: when the keys are pairwise distinct the output is in
\* ascending order of the keys; <<a, b, c>> with keys 0.7, 0.1, 0.4 gives
\* <<b, c, a>>.
C2_AscendingOrder ==
    (ShuffleDone /\ DistinctDraws) =>
        /\ shuffled = AscendingByKey(paired)
        /\ (pcoll = <<"a", "b", "c">> /\ draws = <<7, 1, 4>>)
              => shuffled = <<"b", "c", "a">>

\* C2 as amended: when the keys are pairwise distinct every record is a group
\* of its own and the output holds the records one per group, in the order in
\* which GroupByKey emits the groups, which need not be ascending;
\* <<a, b, c>> with keys 0.7, 0.1, 0.4 gives a permutation of a, b, c, and
\* <<b, c, a>> is one of the outputs it can give.
C2_GroupEmissionOrder ==
    (ShuffleDone /\ DistinctDraws) =>
        /\ Len(grouped) = Len(pcoll)
        /\ \A i \in DOMAIN grouped :
              /\ Len(grouped[i][2]) = 1
              /\ shuffled[i] = grouped[i][2][1]
              /\ \E j \in DOMAIN pcoll :
                    draws[j] = grouped[i][1] /\ pcoll[j] = shuffled[i]
        /\ (pcoll = <<"a", "b", "c">> /\ draws = <<7, 1, 4>>) =>
              /\ BagOf(shuffled) = BagOf(<<"a", "b", "c">>)
              /\ <<"b", "c", "a">> \in ShuffleResults(paired)

C2_Witness ==
    /\ ShuffleDone
    /\ pcoll = <<"a", "b", "c">>
    /\ draws = <<7, 1, 4>>
    /\ shuffled = <<"a", "c", "b">>

C5_EmptyInput ==
    pcoll = <<>> =>
        /\ draws = <<>>
        /\ paired = <<>>
        /\ grouped = <<>>
        /\ shuffled = <<>>
        /\ ~ENABLED PairWithRandom
        /\ ~ENABLED DropRandom

C5_Witness == pcoll = <<>> /\ ShuffleDone /\ shuffled = <<>>

\* C6: on an input of exactly one record the output is that one record,
\* unchanged, whatever key is drawn.
C6_SingleRecord ==
    (Len(pcoll) = 1 /\ ShuffleDone) =>
        /\ shuffled = pcoll
        /\ Len(draws) = 1

C6_Witness == pcoll = <<"b">> /\ draws = <<7>> /\ ShuffleDone /\ shuffled = <<"b">>

\* C8: the multiset is preserved also when keys collide: the records that
\* drew one key form one group of several members, DropRandom emits every
\* member of each group, and the output holds each record once per
\* occurrence in the input.
C8_CollidingKeys ==
    /\ stage = "DropRandom" => shuffled = Emitted(grouped, dropped)
    /\ (stage = "DropRandom" /\ SomeCollision) =>
          /\ \E i \in DOMAIN grouped : Len(grouped[i][2]) >= 2
          /\ \A i \in DOMAIN grouped :
                BagOf(grouped[i][2]) = BagOf(ValuesWithKey(paired, grouped[i][1]))
    /\ (ShuffleDone /\ SomeCollision) =>
          \A r \in Records :
              Cardinality({i \in DOMAIN shuffled : shuffled[i] = r})
                = Cardinality({i \in DOMAIN pcoll : pcoll[i] = r})

C8_Witness ==
    /\ ShuffleDone
    /\ pcoll = <<"a", "b", "b">>
    /\ draws = <<4, 7, 4>>
    /\ \E i \in DOMAIN grouped : grouped[i] = <<4, <<"b", "a">>>>
    /\ Len(shuffled) = 3

(***************************************************************************)
(* Properties of preprocess, checked under PreprocessSpec.                 *)
(***************************************************************************)

TrainFile == "TRANSFORMED_TRAIN_DATA_FILE_PREFIX.tfrecord.gz"
EvalFile == "TRANSFORMED_EVAL_DATA_FILE_PREFIX.tfrecord.gz"
PredictTFRecordFile == "TRANSFORMED_PREDICT_DATA_FILE_PREFIX.tfrecord.gz"
PredictTextFile == "TRANSFORMED_PREDICT_DATA_FILE_PREFIX.txt"

\* C3: the shuffle is applied to the training records only and in a fixed
\* place: they are serialized before they are shuffled and shuffled before
\* they are written; evaluation and prediction records go from their
\* serialization to their writers as serialized, in the order of their input.
C3_ShuffleOnTrainingOnly ==
    /\ "WriteTraining" \in ran => "ShuffleTraining" \in ran
    /\ "ShuffleTraining" \in ran =>
          /\ "SerializeTrainExamples" \in ran
          /\ BagOf(out["ShuffleTraining"]) = BagOf(out["SerializeTrainExamples"])
    /\ "WriteTraining" \in ran => files[TrainFile] = out["ShuffleTraining"]
    /\ "WriteEval" \in ran =>
          /\ "SerializeEvalExamples" \in ran
          /\ files[EvalFile] =
                [i \in DOMAIN inputs.eval_data |->
                    ExampleEncode("evaluate_metadata.schema",
                        Transformed(transform_fn,
                            CsvDecode("input_schema", inputs.eval_data[i])))]
    /\ "WritePredictDataAsTFRecord" \in ran =>
          /\ "EncodePredictData" \in ran
          /\ files[PredictTFRecordFile] =
                [i \in DOMAIN inputs.predict_lines |->
                    PredictEncode(CsvDecode("predict_schema", inputs.predict_lines[i]))]
    /\ "WritePredictDataAsText" \in ran =>
          files[PredictTextFile] =
                [i \in DOMAIN inputs.predict_lines |->
                    _encode_as_b64_json(
                        PredictEncode(CsvDecode("predict_schema", inputs.predict_lines[i])))]

C3_Witness ==
    /\ PipelineDone
    /\ inputs.training_data = <<Line1, Line2>>
    /\ files[TrainFile] # out["SerializeTrainExamples"]
    /\ Len(files[TrainFile]) = 2
    /\ Len(files[EvalFile]) = 2
    /\ Len(files[PredictTFRecordFile]) = 2

\* C7: the frequency_threshold given to preprocess is the threshold used for
\* categorical values: the preprocessing function that AnalyzeAndTransform
\* applies is made from it.
C7_ThresholdDeterminesPreprocessingFn ==
    /\ graph # {} =>
          preprocessing_fn = make_preprocessing_fn(<<inputs.frequency_threshold>>)
    /\ "AnalyzeAndTransform" \in ran =>
          \A i \in DOMAIN out["AnalyzeAndTransform"] :
              out["AnalyzeAndTransform"][i][2][2]
                  = make_preprocessing_fn(<<inputs.frequency_threshold>>)

\* C9: the prediction outputs are written if and only if predict_data is given
\* and not empty.  With it, the same serialized examples go to the TFRecord
\* writer and, encoded as base64 JSON, to the text writer, one entry per input
\* line in each; without it no prediction step is applied or run.  The raw
\* metadata, the transform function, the training and the evaluation output
\* are written in both cases.
C9_PredictOutputsIffPredictData ==
    /\ graph # {} =>
          /\ Truthy(inputs.predict_data) => PredictLabels \subseteq graph
          /\ ~Truthy(inputs.predict_data) => PredictLabels \cap graph = {}
          /\ {"WriteInputMetadata", "WriteTransformFn", "WriteTraining", "WriteEval"}
                \subseteq graph
    /\ ran \subseteq graph
    /\ ~Truthy(inputs.predict_data) =>
          /\ PredictLabels \cap ran = {}
          /\ \A f \in PredictFiles : files[f] = <<>>
    /\ PipelineDone =>
          /\ {"WriteInputMetadata", "WriteTransformFn", "WriteTraining", "WriteEval"}
                \subseteq ran
          /\ files["RAW_METADATA_DIR"] # <<>>
          /\ files["TRANSFORM_FN_DIR"] # <<>>
          /\ Len(files[TrainFile]) = Len(inputs.training_data)
          /\ Len(files[EvalFile]) = Len(inputs.eval_data)
          /\ ({"WritePredictDataAsTFRecord", "WritePredictDataAsText"} \subseteq ran
                <=> Truthy(inputs.predict_data))
          /\ Truthy(inputs.predict_data) =>
                /\ files[PredictTFRecordFile] = out["EncodePredictData"]
                /\ Len(files[PredictTFRecordFile]) = Len(inputs.predict_lines)
                /\ Len(files[PredictTextFile]) = Len(inputs.predict_lines)
                /\ \A i \in DOMAIN files[PredictTextFile] :
                      files[PredictTextFile][i]
                          = _encode_as_b64_json(out["EncodePredictData"][i])

C9_Witness ==
    /\ PipelineDone
    /\ inputs.predict_data = "predict.csv"
    /\ inputs.predict_lines = <<Line1, Line2>>
    /\ files[PredictTFRecordFile] = <<<<10, 1, 49>>, <<10, 3, 50, 44, 51>>>>
    /\ files[PredictTextFile] = <<"{\"b64\": \"CgEx\"}", "{\"b64\": \"CgMyLDM=\"}">>

(***************************************************************************)
(* Properties of parse_arguments and main, checked under ArgsSpec.         *)
(***************************************************************************)

\* parse_arguments has returned
Returned == pc \in {"parsed", "pipeline", "preprocess"}

\* C10 as stated: the default project is looked up only when --cloud is set
\* and no --project_id was given; a project_id supplied by the user is never
\* overwritten.
C10_SuppliedProjectKept ==
    /\ lookups # <<>> => (argv.cloud /\ argv.project_id = None)
    /\ (Returned /\ argv.project_id # None) => args.project_id = argv.project_id

\* C10 as amended: the default project is looked up only when --cloud is set
\* and the project_id is absent or empty, and then its result is stored as
\* project_id; a non-empty project_id supplied by the user is never
\* overwritten (an empty one is, under --cloud); without --cloud the lookup
\* never runs and project_id is left as parsed.
C10_LookupOnlyForCloudWithoutProject ==
    /\ Len(lookups) <= 1
    /\ lookups # <<>> <=>
          /\ pc # "parse_arguments"
          /\ ~Rejected(argv)
          /\ argv.cloud
          /\ argv.project_id \in {None, ""}
    /\ Returned =>
          /\ args.project_id = IF lookups # <<>> THEN lookups[1] ELSE argv.project_id
          /\ args.cloud = argv.cloud
    /\ (Returned /\ Truthy(argv.project_id)) =>
          /\ lookups = <<>>
          /\ args.project_id = argv.project_id
    /\ ~argv.cloud =>
          /\ lookups = <<>>
          /\ Returned => args.project_id = argv.project_id
    /\ pc = "error" <=> (lookups # <<>> /\ lookups[1] = "CalledProcessError")
    /\ (pc \in {"pipeline", "preprocess"} /\ args.cloud) => options[2] = args.project_id

C10_Witness ==
    /\ pc = "preprocess"
    /\ argv.cloud
    /\ argv.project_id = None
    /\ lookups = <<"gcloud-project">>
    /\ args.project_id = "gcloud-project"
    /\ options[2] = "gcloud-project"

=============================================================================
